---- MODULE Spec2Model ----
(***************************************************************************)
(* volm: an in-memory mirror of the PersistentVolumeClaims and Pods of one *)
(* namespace, fed by two client-go shared informers (store_pvc.go,         *)
(* store_pod.go), and the query / delete API built on it (api.go).         *)
(*                                                                         *)
(* The specifications share the variables:                                 *)
(*   Spec       one watch subscription (kind = "pvc" or "pod"), its store, *)
(*              the handler goroutine and one concurrent query task;       *)
(*   FairWatch  the subscription alone, under the runtime's scheduling;    *)
(*   SpecQuery  the API read path, calls made one at a time, over claims   *)
(*              of every label set and every selector, in every state of   *)
(*              the transport;                                             *)
(*   SpecJoin   the same read path over pods of every volume list;         *)
(*   SpecDelete API.DeletePVC against the authority;                       *)
(*   SpecStore  one store's methods called one after the other;            *)
(*   SpecStartup NewApi building the selector from its expression;         *)
(*   FairResync the subscription during an outage of the transport.        *)
(* The two subscriptions share no state (separate informer, map and        *)
(* mutex), so Spec follows one of them per behaviour.  The informer is     *)
(* k8s.io/client-go v0.20.4 (go.mod).                                      *)
(***************************************************************************)
EXTENDS Integers, Sequences, FiniteSets, TLC

VARIABLES
    kind,            \* Spec: the subscription followed, "pvc" or "pod"
    auth,            \* the authority's collection of that kind: name -> object
    rvNext,          \* the authority's next resourceVersion
    conn,            \* reflector: "connecting", "synced" or "disconnected"
    drops,           \* transport failures so far
    idx,             \* the informer's indexer: name -> object
    pending,         \* notifications queued for the event handler
    hpc,             \* handler goroutine: "idle" or "locked"
    mu,              \* the store's sync.Mutex: "free" or "watch"
    pvcMap,          \* PVCStore.pvcMap
    podMap,          \* PodStore.podMap
    rd,              \* the query task reading a store
    crashed,         \* "none", "panic" (handler) or "fatal" (runtime throw)
    PVCSelectorMap,  \* API.PVCSelectorMap
    qres,            \* SpecQuery: the last query's arguments and result
    dl,              \* SpecDelete: the DeletePVC invocation
    ops,             \* SpecStore: the store operations called so far
    cfg              \* SpecStartup: the Config given to NewApi, and NewApi's progress

vars == <<kind, auth, rvNext, conn, drops, idx, pending, hpc, mu, pvcMap,
          podMap, rd, crashed, PVCSelectorMap, qres, dl, ops, cfg>>

----------------------------------------------------------------------------
(* Bounds *)

MaxRV == 2        \* changes made at the authority (resourceVersions 1..MaxRV)
MaxQueue == 2     \* notifications waiting for the handler
MaxDrops == 1     \* transport failures
MaxVolumes == 2   \* volumes of one pod
MaxOps == 4       \* store operations called in SpecStore
MaxExpr == 7      \* characters of the selector expression in SpecStartup

Kinds == {"pvc", "pod"}
ClaimNames == {"pvc-1", "pvc-2"}
PodNames == {"pod-1", "pod-2"}
Keys == {"team", "env"}
Vals == {"a", "b"}

NamesOf(k) == IF k = "pvc" THEN ClaimNames ELSE PodNames

----------------------------------------------------------------------------
(* Go maps: functions with a finite domain; the empty map is <<>>. *)

EmptyMap == <<>>

MapSet(m, key, val) == [x \in DOMAIN m \cup {key} |-> IF x = key THEN val ELSE m[x]]

MapDelete(m, key) == [x \in DOMAIN m \ {key} |-> m[x]]

Range(s) == {s[i] : i \in DOMAIN s}

\* The sequences that list every element of S once (a map's iteration orders).
Perms(S) == {s \in [1..Cardinality(S) -> S] : Range(s) = S}

\* Every label set over Keys and Vals.
LabelSets == UNION {[D -> Vals] : D \in SUBSET Keys}

\* Sequences over S of length at most n.
SeqUpTo(S, n) == UNION {[1..l -> S] : l \in 0..n}

----------------------------------------------------------------------------
(* Objects.  del = 0 is a nil DeletionTimestamp.  A pod's volumes are the  *)
(* claim names of its volume sources; "" is a volume whose                 *)
(* PersistentVolumeClaim source is nil.                                    *)

PVCObj(n, rv, labels, del) == [name |-> n, rv |-> rv, labels |-> labels, del |-> del]

PodObj(n, rv, del, vols) == [name |-> n, rv |-> rv, del |-> del, volumes |-> vols]

\* The objects the authority holds in Spec: only name and version vary.
NewObj(k, n, rv) == IF k = "pvc" THEN PVCObj(n, rv, <<>>, 0) ELSE PodObj(n, rv, 0, <<>>)

----------------------------------------------------------------------------
(* The stores' map operations (the statements between Lock and Unlock, and *)
(* the unlocked reads).                                                    *)

\* An AddPVC that keeps the record a name already has.
AddPVC_KeepFirst(m, pvc) == IF pvc.name \in DOMAIN m THEN m ELSE MapSet(m, pvc.name, pvc)

AddPVC(m, pvc) == MapSet(m, pvc.name, pvc)

DeletePVC(m, podName) == IF podName \in DOMAIN m THEN MapDelete(m, podName) ELSE m

\* A nil result is <<>>, a pointer to a copy of the record is <<record>>.
GetPVC(m, pvcName) == IF pvcName \in DOMAIN m THEN <<m[pvcName]>> ELSE <<>>

\* A GetPVCs whose every element is the entry range visited last.
GetPVCs_LastOnly(m, order) == [i \in 1..Len(order) |-> m[order[Len(order)]]]

\* order: the order in which range visits the keys.
GetPVCs(m, order) == [i \in 1..Len(order) |-> m[order[i]]]

AddPod(m, pod) == MapSet(m, pod.name, pod)

\* A DeletePod that finds the entry and leaves it.
DeletePod_Noop(m, podName) == m

DeletePod(m, podName) == IF podName \in DOMAIN m THEN MapDelete(m, podName) ELSE m

GetPod(m, podName) == IF podName \in DOMAIN m THEN <<m[podName]>> ELSE <<>>

GetPods(m, order) == [i \in 1..Len(order) |-> m[order[i]]]

Map(k) == IF k = "pvc" THEN pvcMap ELSE podMap

SetMap(k, m) ==
    IF k = "pvc" THEN pvcMap' = m /\ podMap' = podMap
                 ELSE podMap' = m /\ pvcMap' = pvcMap

----------------------------------------------------------------------------
(* Event handlers registered with the informer.  A notification is         *)
(* [type, old, obj]: obj is the added / new / deleted object; for a delete *)
(* the informer may pass a cache.DeletedFinalStateUnknown tombstone.       *)

AddNote(obj) == [type |-> "add", old |-> obj, obj |-> obj, tomb |-> FALSE]

UpdateNote(old, new) == [type |-> "update", old |-> old, obj |-> new, tomb |-> FALSE]

DeleteNote(obj, tomb) == [type |-> "delete", old |-> obj, obj |-> obj, tomb |-> tomb]

\* The object UpdateFunc hands to the store.
PVCUpdateArg(oldObj, newObj) == oldObj

PodUpdateArg(oldObj, newObj) == newObj

\* obj.(*v1.PersistentVolumeClaim) / obj.(*v1.Pod) in DeleteFunc: the
\* single-value type assertion panics on any other dynamic type.
AssertionPanics(e) == e.type = "delete" /\ e.tomb

\* The map a handler leaves behind for notification e.
PVCHandle(m, e) ==
    CASE e.type = "add"    -> AddPVC(m, e.obj)
      [] e.type = "delete" -> DeletePVC(m, e.obj.name)
      [] e.type = "update" -> AddPVC(m, PVCUpdateArg(e.old, e.obj))

PodHandle(m, e) ==
    CASE e.type = "add"    -> AddPod(m, e.obj)
      [] e.type = "delete" -> DeletePod(m, e.obj.name)
      [] e.type = "update" -> AddPod(m, PodUpdateArg(e.old, e.obj))

Handle(k, m, e) == IF k = "pvc" THEN PVCHandle(m, e) ELSE PodHandle(m, e)

----------------------------------------------------------------------------
(* The shared informer started by PVCWatch / PodWatch (client-go): a       *)
(* reflector that lists, then watches; an indexer of the objects it knows; *)
(* and one listener goroutine that calls the registered handlers, one      *)
(* notification at a time, in order.                                       *)

NameOrder(k) == IF k = "pvc" THEN <<"pvc-1", "pvc-2">> ELSE <<"pod-1", "pod-2">>

RECURSIVE Flatten(_)
Flatten(ss) == IF ss = <<>> THEN <<>> ELSE Head(ss) \o Flatten(Tail(ss))

\* A watch event for obj, as the informer turns it into a notification.
WatchNote(type, obj, known) ==
    IF type = "delete" THEN DeleteNote(obj, FALSE)
    ELSE IF obj.name \in DOMAIN known THEN UpdateNote(known[obj.name], obj)
    ELSE AddNote(obj)

\* A full listing replacing what the informer knows: an update or add for
\* every listed object, then a delete carrying a DeletedFinalStateUnknown
\* tombstone for every known object the listing lacks.  An unchanged object
\* is a sync notification, delivered only when the handler's resync is due.
ReplaceNotes(k, list, known, syncDue) ==
    LET listed(n) ==
            IF n \notin DOMAIN list THEN <<>>
            ELSE IF n \notin DOMAIN known THEN <<AddNote(list[n])>>
            ELSE IF known[n].rv = list[n].rv /\ ~syncDue THEN <<>>
            ELSE <<UpdateNote(known[n], list[n])>>
        gone(n) ==
            IF n \in DOMAIN known /\ n \notin DOMAIN list
            THEN <<DeleteNote(known[n], TRUE)>> ELSE <<>>
        order == NameOrder(k)
    IN Flatten([i \in 1..Len(order) |-> listed(order[i])])
       \o Flatten([i \in 1..Len(order) |-> gone(order[i])])

\* The resync period (60 s): every known object is replayed as an update
\* whose old and new object are the same.
ResyncNotes(k, known) ==
    LET order == NameOrder(k)
        one(n) == IF n \in DOMAIN known THEN <<UpdateNote(known[n], known[n])>> ELSE <<>>
    IN Flatten([i \in 1..Len(order) |-> one(order[i])])

RdIdle == [pc |-> "idle", name |-> "", order |-> <<>>, i |-> 0, out |-> <<>>, snaps |-> {}]

NoErr == [msg |-> "", key |-> "", val |-> ""]

QIdle == [op |-> "none", name |-> "", err |-> NoErr, views |-> <<>>, code |-> 0]

DlIdle == [pc |-> "idle", name |-> "", fetched |-> <<>>, calls |-> <<>>,
           getErr |-> NoErr, delErr |-> NoErr, err |-> NoErr, code |-> 0]

\* A Config whose PVCSelector is not followed from its text (the selector is
\* given as the requirement set NewApi built).
CfgNone == [PVCSelector |-> <<>>, pc |-> "built"]

Running == crashed = "none"

\* The watch delivers a change made at the authority while the reflector is
\* connected; a change made while it is not is never seen as an event.
Watch(type, obj) ==
    IF conn = "synced"
    THEN /\ Len(pending) < MaxQueue
         /\ pending' = Append(pending, WatchNote(type, obj, idx))
         /\ idx' = IF type = "delete" THEN MapDelete(idx, obj.name)
                   ELSE MapSet(idx, obj.name, obj)
    ELSE UNCHANGED <<pending, idx>>

AuthCreate(n) ==
    /\ Running
    /\ n \notin DOMAIN auth
    /\ rvNext <= MaxRV
    /\ auth' = MapSet(auth, n, NewObj(kind, n, rvNext))
    /\ rvNext' = rvNext + 1
    /\ Watch("add", NewObj(kind, n, rvNext))
    /\ UNCHANGED <<kind, conn, drops, hpc, mu, pvcMap, podMap, rd, crashed,
                   PVCSelectorMap, qres, dl, ops, cfg>>

AuthUpdate(n) ==
    /\ Running
    /\ n \in DOMAIN auth
    /\ rvNext <= MaxRV
    /\ auth' = MapSet(auth, n, [auth[n] EXCEPT !.rv = rvNext])
    /\ rvNext' = rvNext + 1
    /\ Watch("update", [auth[n] EXCEPT !.rv = rvNext])
    /\ UNCHANGED <<kind, conn, drops, hpc, mu, pvcMap, podMap, rd, crashed,
                   PVCSelectorMap, qres, dl, ops, cfg>>

AuthDelete(n) ==
    /\ Running
    /\ n \in DOMAIN auth
    /\ rvNext <= MaxRV
    /\ auth' = MapDelete(auth, n)
    /\ rvNext' = rvNext + 1
    /\ Watch("delete", [auth[n] EXCEPT !.rv = rvNext])
    /\ UNCHANGED <<kind, conn, drops, hpc, mu, pvcMap, podMap, rd, crashed,
                   PVCSelectorMap, qres, dl, ops, cfg>>

\* The reflector lists the collection (first start, or after a transport
\* failure) and resumes watching.
ListAndWatch(syncDue) ==
    /\ Running
    /\ conn \in {"connecting", "disconnected"}
    /\ LET notes == ReplaceNotes(kind, auth, idx, syncDue)
       IN /\ Len(pending) + Len(notes) <= MaxQueue
          /\ pending' = pending \o notes
    /\ idx' = auth
    /\ conn' = "synced"
    /\ UNCHANGED <<kind, auth, rvNext, drops, hpc, mu, pvcMap, podMap, rd,
                   crashed, PVCSelectorMap, qres, dl, ops, cfg>>

Disconnect ==
    /\ Running
    /\ conn = "synced"
    /\ drops < MaxDrops
    /\ conn' = "disconnected"
    /\ drops' = drops + 1
    /\ UNCHANGED <<kind, auth, rvNext, idx, pending, hpc, mu, pvcMap, podMap,
                   rd, crashed, PVCSelectorMap, qres, dl, ops, cfg>>

\* The resync timer runs beside the watch for as long as the reflector has not
\* given the watch up, so it also fires while the transport delivers nothing.
Resync ==
    /\ Running
    /\ conn \in {"synced", "disconnected"}
    /\ idx # EmptyMap
    /\ LET notes == ResyncNotes(kind, idx)
       IN /\ Len(pending) + Len(notes) <= MaxQueue
          /\ pending' = pending \o notes
    /\ UNCHANGED <<kind, auth, rvNext, conn, drops, idx, hpc, mu, pvcMap,
                   podMap, rd, crashed, PVCSelectorMap, qres, dl, ops, cfg>>

----------------------------------------------------------------------------
(* The listener goroutine running AddFunc / UpdateFunc / DeleteFunc.       *)

\* DeleteFunc's type assertion fails on a tombstone: the panic is re-raised
\* by the informer's crash handler and ends the process.
HPanic ==
    /\ Running
    /\ hpc = "idle"
    /\ pending # <<>>
    /\ AssertionPanics(Head(pending))
    /\ crashed' = "panic"
    /\ UNCHANGED <<kind, auth, rvNext, conn, drops, idx, pending, hpc, mu,
                   pvcMap, podMap, rd, PVCSelectorMap, qres, dl, ops, cfg>>

\* AddPVC / DeletePVC / AddPod / DeletePod: Lock().
HLock ==
    /\ Running
    /\ hpc = "idle"
    /\ pending # <<>>
    /\ ~AssertionPanics(Head(pending))
    /\ mu = "free"
    /\ mu' = "watch"
    /\ hpc' = "locked"
    /\ UNCHANGED <<kind, auth, rvNext, conn, drops, idx, pending, pvcMap,
                   podMap, rd, crashed, PVCSelectorMap, qres, dl, ops, cfg>>

\* The map write, then Unlock().  rd.snaps records every value the map takes
\* while a list is running.
HApply ==
    /\ Running
    /\ hpc = "locked"
    /\ LET m == Handle(kind, Map(kind), Head(pending))
       IN /\ SetMap(kind, m)
          /\ rd' = IF rd.pc = "iter" THEN [rd EXCEPT !.snaps = @ \cup {m}] ELSE rd
    /\ pending' = Tail(pending)
    /\ mu' = "free"
    /\ hpc' = "idle"
    /\ UNCHANGED <<kind, auth, rvNext, conn, drops, idx, crashed,
                   PVCSelectorMap, qres, dl, ops, cfg>>

----------------------------------------------------------------------------
(* A query task reading the store: GetPVCs / GetPods range over the map    *)
(* and GetPVC / GetPod index it, neither taking the mutex.  A read made    *)
(* while the handler is inside its critical section is a data race: the    *)
(* runtime either throws "concurrent map read/iteration and map write",    *)
(* which ends the process, or the read goes through.                       *)

\* range starts; over an empty map it ends at once.
QListStart(order) ==
    /\ Running
    /\ rd.pc = "idle"
    /\ rd' = [RdIdle EXCEPT !.pc = "iter", !.order = order,
                            !.i = IF Map(kind) = EmptyMap THEN Len(order) + 1 ELSE 1,
                            !.snaps = {Map(kind)}]
    /\ UNCHANGED <<kind, auth, rvNext, conn, drops, idx, pending, hpc, mu,
                   pvcMap, podMap, crashed, PVCSelectorMap, qres, dl, ops, cfg>>

\* The iterator visits the next bucket and yields the entry it holds now.
QListStep ==
    /\ Running
    /\ rd.pc = "iter"
    /\ rd.i <= Len(rd.order)
    /\ LET n == rd.order[rd.i]
       IN rd' = [rd EXCEPT !.i = @ + 1,
                           !.out = IF n \in DOMAIN Map(kind)
                                   THEN Append(@, Map(kind)[n]) ELSE @]
    /\ UNCHANGED <<kind, auth, rvNext, conn, drops, idx, pending, hpc, mu,
                   pvcMap, podMap, crashed, PVCSelectorMap, qres, dl, ops, cfg>>

QListDone ==
    /\ Running
    /\ rd.pc = "iter"
    /\ rd.i > Len(rd.order)
    /\ rd' = [rd EXCEPT !.pc = "listed"]
    /\ UNCHANGED <<kind, auth, rvNext, conn, drops, idx, pending, hpc, mu,
                   pvcMap, podMap, crashed, PVCSelectorMap, qres, dl, ops, cfg>>

QGetStart(n) ==
    /\ Running
    /\ rd.pc = "idle"
    /\ rd' = [RdIdle EXCEPT !.pc = "get", !.name = n]
    /\ UNCHANGED <<kind, auth, rvNext, conn, drops, idx, pending, hpc, mu,
                   pvcMap, podMap, crashed, PVCSelectorMap, qres, dl, ops, cfg>>

QGetStep ==
    /\ Running
    /\ rd.pc = "get"
    /\ rd' = [rd EXCEPT !.pc = "got",
                        !.out = IF kind = "pvc" THEN GetPVC(pvcMap, rd.name)
                                ELSE GetPod(podMap, rd.name)]
    /\ UNCHANGED <<kind, auth, rvNext, conn, drops, idx, pending, hpc, mu,
                   pvcMap, podMap, crashed, PVCSelectorMap, qres, dl, ops, cfg>>

\* The runtime detects the concurrent write and throws.
QThrow ==
    /\ Running
    /\ rd.pc \in {"iter", "get"}
    /\ hpc = "locked"
    /\ crashed' = "fatal"
    /\ UNCHANGED <<kind, auth, rvNext, conn, drops, idx, pending, hpc, mu,
                   pvcMap, podMap, rd, PVCSelectorMap, qres, dl, ops, cfg>>

QReturn ==
    /\ Running
    /\ rd.pc \in {"listed", "got"}
    /\ rd' = RdIdle
    /\ UNCHANGED <<kind, auth, rvNext, conn, drops, idx, pending, hpc, mu,
                   pvcMap, podMap, crashed, PVCSelectorMap, qres, dl, ops, cfg>>

----------------------------------------------------------------------------

\* NewPVCStore / NewPodStore return with an empty map and the informer
\* started in its own goroutine; the authority already holds objects.
Init ==
    /\ kind \in Kinds
    /\ auth \in {[n \in D |-> NewObj(kind, n, 0)] : D \in SUBSET NamesOf(kind)}
    /\ rvNext = 1
    /\ conn = "connecting"
    /\ drops = 0
    /\ idx = EmptyMap
    /\ pending = <<>>
    /\ hpc = "idle"
    /\ mu = "free"
    /\ pvcMap = EmptyMap
    /\ podMap = EmptyMap
    /\ rd = RdIdle
    /\ crashed = "none"
    /\ PVCSelectorMap = EmptyMap
    /\ qres = QIdle
    /\ dl = DlIdle
    /\ ops = <<>>
    /\ cfg = CfgNone

Next ==
    \/ \E n \in NamesOf(kind) : AuthCreate(n) \/ AuthUpdate(n) \/ AuthDelete(n)
    \/ \E syncDue \in BOOLEAN : ListAndWatch(syncDue)
    \/ Disconnect
    \/ Resync
    \/ HPanic
    \/ HLock
    \/ HApply
    \/ \E order \in Perms(NamesOf(kind)) : QListStart(order)
    \/ QListStep
    \/ QListDone
    \/ \E n \in NamesOf(kind) : QGetStart(n)
    \/ QGetStep
    \/ QThrow
    \/ QReturn

Spec == Init /\ [][Next]_vars

----------------------------------------------------------------------------
(* The API read path (api.go).  An error value is [msg, key, val]: the     *)
(* format string of fmt.Errorf and its arguments; NoErr is a nil error.    *)

NoClaim == ""

NotFoundErr == [msg |-> "not found", key |-> "", val |-> ""]

MissingKeyErr(k) == [msg |-> "PVC labels does not contain key", key |-> k, val |-> ""]

WrongValueErr(k, v) == [msg |-> "PVC label does not contain value", key |-> k, val |-> v]

\* pvc.Labels[k]: a missing key reads as the empty string.
LabelOf(labels, k) == IF k \in DOMAIN labels THEN labels[k] ELSE ""

\* A selector loop that tests only that the key is present.
selectorPass_KeysOnly(labels, sel) == \A k \in DOMAIN sel : ~(k \notin DOMAIN labels)

\* The selector loop of GetPVCList: both tests run for every requirement.
selectorPass(labels, sel) ==
    \A k \in DOMAIN sel : ~(k \notin DOMAIN labels) /\ ~(LabelOf(labels, k) # sel[k])

\* A selector loop without the value test.
SelectorErr_KeysOnly(labels, sel, korder) ==
    LET bad == {i \in 1..Len(korder) : korder[i] \notin DOMAIN labels}
    IN IF bad = {} THEN NoErr
       ELSE MissingKeyErr(korder[CHOOSE x \in bad : \A y \in bad : x <= y])

\* A selector loop that returns after the first requirement range visits.
SelectorErr_FirstOnly(labels, sel, korder) ==
    IF korder = <<>> THEN NoErr
    ELSE IF korder[1] \notin DOMAIN labels THEN MissingKeyErr(korder[1])
    ELSE IF LabelOf(labels, korder[1]) # sel[korder[1]]
    THEN WrongValueErr(korder[1], sel[korder[1]])
    ELSE NoErr

\* The selector loop of GetPVC and DeletePVC: range visits the requirements
\* in the order korder and the first failing test returns its error.
SelectorErr(labels, sel, korder) ==
    LET bad == {i \in 1..Len(korder) :
                    \/ korder[i] \notin DOMAIN labels
                    \/ LabelOf(labels, korder[i]) # sel[korder[i]]}
    IN IF bad = {} THEN NoErr
       ELSE LET i == CHOOSE x \in bad : \A y \in bad : x <= y
                k == korder[i]
            IN IF k \notin DOMAIN labels THEN MissingKeyErr(k)
               ELSE WrongValueErr(k, sel[k])

\* A PodInfo whose terminating fields are left at their zero values.
PodInfo_NeverTerminating(pod) ==
    [name |-> pod.name, terminating |-> FALSE, terminatingSince |-> 0]

PodInfo(pod) ==
    [name |-> pod.name, terminating |-> pod.del # 0, terminatingSince |-> pod.del]

\* One PodInfo for every volume of every pod that names the claim.
GetPodsInfoByPVC(pods, pvcName) ==
    LET ofPod(pod) ==
            Flatten([j \in 1..Len(pod.volumes) |->
                        IF pod.volumes[j] # NoClaim /\ pod.volumes[j] = pvcName
                        THEN <<PodInfo(pod)>> ELSE <<>>])
    IN Flatten([i \in 1..Len(pods) |-> ofPod(pods[i])])

VolumeInfo(pvc, podList) ==
    [name |-> pvc.name, labels |-> pvc.labels, terminating |-> pvc.del # 0,
     terminatingSince |-> pvc.del, usedBy |-> podList]

\* API.GetPVCList over the two lists the stores returned.
GetPVCList(pvcs, pods, sel) ==
    Flatten([i \in 1..Len(pvcs) |->
                IF selectorPass(pvcs[i].labels, sel)
                THEN <<VolumeInfo(pvcs[i], GetPodsInfoByPVC(pods, pvcs[i].name))>>
                ELSE <<>>])

\* A GetPVC that asks the authority first and fails when it cannot be reached.
APIGetPVC_Live(name, sel, korder, podOrder) ==
    IF conn # "synced"
    THEN [err |-> [msg |-> "upstream failure", key |-> "get", val |-> ""], views |-> <<>>]
    ELSE IF name \notin DOMAIN pvcMap THEN [err |-> NotFoundErr, views |-> <<>>]
    ELSE IF SelectorErr(pvcMap[name].labels, sel, korder) # NoErr
    THEN [err |-> SelectorErr(pvcMap[name].labels, sel, korder), views |-> <<>>]
    ELSE [err |-> NoErr,
          views |-> <<VolumeInfo(pvcMap[name],
                         GetPodsInfoByPVC(GetPods(podMap, podOrder), name))>>]

\* API.GetPVC: [err, views]; views holds the VolumeInfo of a nil-error return.
APIGetPVC(name, sel, korder, podOrder) ==
    LET pvc == GetPVC(pvcMap, name)
    IN IF pvc = <<>> THEN [err |-> NotFoundErr, views |-> <<>>]
       ELSE IF SelectorErr(pvc[1].labels, sel, korder) # NoErr
       THEN [err |-> SelectorErr(pvc[1].labels, sel, korder), views |-> <<>>]
       ELSE [err |-> NoErr,
             views |-> <<VolumeInfo(pvc[1],
                            GetPodsInfoByPVC(GetPods(podMap, podOrder), pvc[1].name))>>]

\* GetPVCHandler's status code for the error GetPVC returned.
GetPVCHandler(err) ==
    IF err # NoErr /\ err.msg = "not found" /\ err.key = "" THEN 404
    ELSE IF err # NoErr THEN 500
    ELSE 200

\* ListPVCHandler: GetPVCList's error is always nil.
ListPVCHandler(views) == 200

\* Inputs of SpecQuery: claims with every label set and deletion marker, a
\* selector of any requirements, one pod, with or without a deletion marker.
ClaimObjects == {PVCObj(n, 1, l, d) : n \in ClaimNames, l \in LabelSets, d \in {0, 1}}

FewPods == {PodObj("pod-1", 1, d, <<"pvc-1">>) : d \in {0, 1}}

Selectors == LabelSets

\* Inputs of SpecJoin: pods with every volume list and deletion marker,
\* claims without labels, the empty selector.
PodObjects ==
    {PodObj(n, 1, d, v) : n \in PodNames, d \in {0, 1},
                          v \in SeqUpTo(ClaimNames \cup {NoClaim}, MaxVolumes)}

FewClaims == {PVCObj(n, 1, <<>>, 0) : n \in ClaimNames}

QueryFrame == UNCHANGED <<kind, auth, rvNext, conn, drops, idx, pending, hpc, mu,
                          rd, crashed, PVCSelectorMap, dl, ops, cfg>>

\* Store mutations, each call running from Lock to Unlock before the next.
StoreAddPVC(pvc) ==
    /\ pvcMap' = AddPVC(pvcMap, pvc)
    /\ qres' = QIdle
    /\ UNCHANGED podMap
    /\ QueryFrame

StoreDeletePVC(n) ==
    /\ pvcMap' = DeletePVC(pvcMap, n)
    /\ qres' = QIdle
    /\ UNCHANGED podMap
    /\ QueryFrame

StoreAddPod(pod) ==
    /\ podMap' = AddPod(podMap, pod)
    /\ qres' = QIdle
    /\ UNCHANGED pvcMap
    /\ QueryFrame

StoreDeletePod(n) ==
    /\ podMap' = DeletePod(podMap, n)
    /\ qres' = QIdle
    /\ UNCHANGED pvcMap
    /\ QueryFrame

\* GET /vol/:name
CallGetPVC(name, korder, podOrder) ==
    /\ LET r == APIGetPVC(name, PVCSelectorMap, korder, podOrder)
       IN qres' = [op |-> "get", name |-> name, err |-> r.err, views |-> r.views,
                   code |-> GetPVCHandler(r.err)]
    /\ UNCHANGED <<pvcMap, podMap>>
    /\ QueryFrame

\* GET /vol/
CallGetPVCList(pvcOrder, podOrder) ==
    /\ LET views == GetPVCList(GetPVCs(pvcMap, pvcOrder), GetPods(podMap, podOrder),
                               PVCSelectorMap)
       IN qres' = [op |-> "list", name |-> "", err |-> NoErr, views |-> views,
                   code |-> ListPVCHandler(views)]
    /\ UNCHANGED <<pvcMap, podMap>>
    /\ QueryFrame

StoresEmpty ==
    /\ kind = "pvc"
    /\ auth = EmptyMap
    /\ rvNext = 1
    /\ conn = "synced"
    /\ drops = 0
    /\ idx = EmptyMap
    /\ pending = <<>>
    /\ hpc = "idle"
    /\ mu = "free"
    /\ pvcMap = EmptyMap
    /\ podMap = EmptyMap
    /\ rd = RdIdle
    /\ crashed = "none"
    /\ qres = QIdle
    /\ dl = DlIdle
    /\ ops = <<>>
    /\ cfg = CfgNone

\* The subscriptions' transport comes and goes while the API serves queries;
\* GetPVC and GetPVCList make no call on the clientset.
Transport(c) ==
    /\ c # conn
    /\ conn' = c
    /\ UNCHANGED <<kind, auth, rvNext, drops, idx, pending, hpc, mu, pvcMap, podMap,
                   rd, crashed, PVCSelectorMap, qres, dl, ops, cfg>>

ConnStates == {"connecting", "synced", "disconnected"}

Queries ==
    \/ \E name \in ClaimNames, korder \in Perms(DOMAIN PVCSelectorMap),
          podOrder \in Perms(DOMAIN podMap) : CallGetPVC(name, korder, podOrder)
    \/ \E pvcOrder \in Perms(DOMAIN pvcMap), podOrder \in Perms(DOMAIN podMap) :
          CallGetPVCList(pvcOrder, podOrder)

InitQuery == StoresEmpty /\ PVCSelectorMap \in Selectors

NextQuery ==
    \/ \E pvc \in ClaimObjects : StoreAddPVC(pvc)
    \/ \E n \in ClaimNames : StoreDeletePVC(n)
    \/ \E pod \in FewPods : StoreAddPod(pod)
    \/ \E n \in PodNames : StoreDeletePod(n)
    \/ \E c \in ConnStates : Transport(c)
    \/ Queries

SpecQuery == InitQuery /\ [][NextQuery]_vars

InitJoin == StoresEmpty /\ PVCSelectorMap = EmptyMap

NextJoin ==
    \/ \E pvc \in FewClaims : StoreAddPVC(pvc)
    \/ \E n \in ClaimNames : StoreDeletePVC(n)
    \/ \E pod \in PodObjects : StoreAddPod(pod)
    \/ \E n \in PodNames : StoreDeletePod(n)
    \/ Queries

SpecJoin == InitJoin /\ [][NextJoin]_vars

----------------------------------------------------------------------------
(* API.DeletePVC (api.go): a Get and, if the selector passes, a Delete,    *)
(* both sent to the authority; other clients change the claims meanwhile.  *)

StatusNotFound == [msg |-> "StatusReasonNotFound", key |-> "", val |-> ""]

UpstreamErr(call) == [msg |-> "upstream failure", key |-> call, val |-> ""]

IsNotFound(err) == err.msg = "StatusReasonNotFound"

\* DeletePVC without its selector loop, and without its second error test.
DeleteAfterGet_NoSelector(getErr, labels, sel, korder) == getErr

DeleteAfterGet_NotFoundOnly(getErr, labels, sel, korder) ==
    IF IsNotFound(getErr) THEN getErr ELSE SelectorErr(labels, sel, korder)

\* What DeletePVC does with the answer to its Get: the error it returns at
\* once, or NoErr to go on to the Delete call.
DeleteAfterGet(getErr, labels, sel, korder) ==
    IF IsNotFound(getErr) THEN getErr
    ELSE IF getErr # NoErr THEN getErr
    ELSE SelectorErr(labels, sel, korder)

\* DeletePVCHandler's status code.
DeletePVCHandler(err) ==
    IF IsNotFound(err) THEN 404 ELSE IF err # NoErr THEN 500 ELSE 200

DlStart == [pc |-> "get", name |-> "", fetched |-> <<>>, calls |-> <<>>,
            getErr |-> NoErr, delErr |-> NoErr, err |-> NoErr, code |-> 0]

DeleteFrame == UNCHANGED <<kind, rvNext, conn, drops, idx, pending, hpc, mu, pvcMap,
                           podMap, rd, crashed, PVCSelectorMap, qres, ops, cfg>>

\* DELETE /vol/:name
DelCall(name) ==
    /\ dl.pc \in {"idle", "done"}
    /\ dl' = [DlStart EXCEPT !.name = name]
    /\ UNCHANGED auth
    /\ DeleteFrame

\* A DeletePVC that takes the claim from the store when the store has it.
LiveClaim_FromStore(name) == IF name \in DOMAIN pvcMap THEN pvcMap[name] ELSE auth[name]

\* The object of a successful pvcClient.Get: the authority's, as it is now.
LiveClaim(name) == auth[name]

\* pvcClient.Get answers getErr (NoErr with the live object), then the
\* selector loop runs on the object fetched.
DelGet(getErr, korder) ==
    /\ dl.pc = "get"
    /\ \/ getErr = StatusNotFound /\ dl.name \notin DOMAIN auth
       \/ getErr = UpstreamErr("get")
       \/ getErr = NoErr /\ dl.name \in DOMAIN auth
    /\ LET labels == IF getErr = NoErr THEN LiveClaim(dl.name).labels ELSE <<>>
           ret == DeleteAfterGet(getErr, labels, PVCSelectorMap, korder)
       IN dl' = [dl EXCEPT !.calls = Append(@, "get"),
                           !.getErr = getErr,
                           !.fetched = IF getErr = NoErr THEN <<LiveClaim(dl.name)>> ELSE <<>>,
                           !.err = ret,
                           !.code = DeletePVCHandler(ret),
                           !.pc = IF ret = NoErr THEN "delete" ELSE "done"]
    /\ UNCHANGED auth
    /\ DeleteFrame

\* pvcClient.Delete answers delErr, which DeletePVC returns.
DelDelete(delErr) ==
    /\ dl.pc = "delete"
    /\ \/ delErr = StatusNotFound /\ dl.name \notin DOMAIN auth
       \/ delErr = UpstreamErr("delete")
       \/ delErr = NoErr /\ dl.name \in DOMAIN auth
    /\ auth' = IF delErr = NoErr THEN MapDelete(auth, dl.name) ELSE auth
    /\ dl' = [dl EXCEPT !.calls = Append(@, "delete"),
                        !.delErr = delErr,
                        !.err = delErr,
                        !.code = DeletePVCHandler(delErr),
                        !.pc = "done"]
    /\ DeleteFrame

\* Other clients of the authority.
OtherApply(pvc) ==
    /\ auth' = MapSet(auth, pvc.name, pvc)
    /\ UNCHANGED dl
    /\ DeleteFrame

OtherDelete(n) ==
    /\ n \in DOMAIN auth
    /\ auth' = MapDelete(auth, n)
    /\ UNCHANGED dl
    /\ DeleteFrame

LiveClaims == {PVCObj(n, 1, l, 0) : n \in ClaimNames, l \in LabelSets}

\* What the claim store may hold of pvc-1 while DeletePVC runs: an older
\* version, with other labels than the authority's.
CachedClaims == {PVCObj("pvc-1", 0, l, 0) : l \in {<<>>, [team |-> "a"]}}

CachedPods == {PodObj("pod-1", 0, 0, <<"pvc-1">>)}

InitDelete ==
    /\ kind = "pvc"
    /\ auth = EmptyMap
    /\ rvNext = 1
    /\ conn = "synced"
    /\ drops = 0
    /\ idx = EmptyMap
    /\ pending = <<>>
    /\ hpc = "idle"
    /\ mu = "free"
    /\ pvcMap = EmptyMap
    /\ podMap = EmptyMap
    /\ rd = RdIdle
    /\ crashed = "none"
    /\ PVCSelectorMap \in Selectors
    /\ qres = QIdle
    /\ dl = DlIdle
    /\ ops = <<>>
    /\ cfg = CfgNone

NextDelete ==
    \/ \E name \in ClaimNames : DelCall(name)
    \/ \E getErr \in {NoErr, StatusNotFound, UpstreamErr("get")},
          korder \in Perms(DOMAIN PVCSelectorMap) : DelGet(getErr, korder)
    \/ \E delErr \in {NoErr, StatusNotFound, UpstreamErr("delete")} : DelDelete(delErr)
    \/ \E pvc \in LiveClaims : OtherApply(pvc)
    \/ \E n \in ClaimNames : OtherDelete(n)
    \/ \E pvc \in CachedClaims : StoreAddPVC(pvc)
    \/ \E n \in ClaimNames : StoreDeletePVC(n)
    \/ \E pod \in CachedPods : StoreAddPod(pod)

SpecDelete == InitDelete /\ [][NextDelete]_vars

----------------------------------------------------------------------------
(* A store used on its own: AddPVC / DeletePVC / GetPVC / GetPVCs (and the *)
(* pod store's four) called one after the other, each call running to its  *)
(* return.  ops logs the calls that write; rd holds the last read's result  *)
(* and, in rd.i, how many writes had been made when it was taken.           *)

StoreAdd(k, m, r) == IF k = "pvc" THEN AddPVC(m, r) ELSE AddPod(m, r)

StoreDelete(k, m, n) == IF k = "pvc" THEN DeletePVC(m, n) ELSE DeletePod(m, n)

StoreGet(k, m, n) == IF k = "pvc" THEN GetPVC(m, n) ELSE GetPod(m, n)

StoreList(k, m, order) == IF k = "pvc" THEN GetPVCs(m, order) ELSE GetPods(m, order)

\* The records written: two versions of every name.
StoreRecords(k) == {NewObj(k, n, rv) : n \in NamesOf(k), rv \in {1, 2}}

StoreFrame == UNCHANGED <<kind, auth, rvNext, conn, drops, idx, pending, hpc, mu,
                          crashed, PVCSelectorMap, qres, dl, cfg>>

CallAdd(r) ==
    /\ Len(ops) < MaxOps
    /\ SetMap(kind, StoreAdd(kind, Map(kind), r))
    /\ ops' = Append(ops, [op |-> "add", name |-> r.name, rec |-> <<r>>])
    /\ UNCHANGED rd
    /\ StoreFrame

CallDelete(n) ==
    /\ Len(ops) < MaxOps
    /\ SetMap(kind, StoreDelete(kind, Map(kind), n))
    /\ ops' = Append(ops, [op |-> "delete", name |-> n, rec |-> <<>>])
    /\ UNCHANGED rd
    /\ StoreFrame

CallGet(n) ==
    /\ rd' = [RdIdle EXCEPT !.pc = "got", !.name = n, !.i = Len(ops),
                            !.out = StoreGet(kind, Map(kind), n)]
    /\ UNCHANGED <<pvcMap, podMap, ops>>
    /\ StoreFrame

CallList(order) ==
    /\ rd' = [RdIdle EXCEPT !.pc = "listed", !.order = order, !.i = Len(ops),
                            !.out = StoreList(kind, Map(kind), order)]
    /\ UNCHANGED <<pvcMap, podMap, ops>>
    /\ StoreFrame

InitStore ==
    /\ kind \in Kinds
    /\ auth = EmptyMap
    /\ rvNext = 1
    /\ conn = "connecting"
    /\ drops = 0
    /\ idx = EmptyMap
    /\ pending = <<>>
    /\ hpc = "idle"
    /\ mu = "free"
    /\ pvcMap = EmptyMap
    /\ podMap = EmptyMap
    /\ rd = RdIdle
    /\ crashed = "none"
    /\ PVCSelectorMap = EmptyMap
    /\ qres = QIdle
    /\ dl = DlIdle
    /\ ops = <<>>
    /\ cfg = CfgNone

NextStore ==
    \/ \E r \in StoreRecords(kind) : CallAdd(r)
    \/ \E n \in NamesOf(kind) : CallDelete(n)
    \/ \E n \in NamesOf(kind) : CallGet(n)
    \/ \E order \in Perms(DOMAIN Map(kind)) : CallList(order)

SpecStore == InitStore /\ [][NextStore]_vars

----------------------------------------------------------------------------
(* NewApi's selector construction (api.go).  A string is the sequence of   *)
(* its characters; cfg.PVCSelector is Config.PVCSelector and cfg.pc says    *)
(* whether NewApi has run ("new"), returned the API ("built") or ended the  *)
(* process ("exit").                                                        *)

Chars == {"a", "b", "=", ","}

\* strings.Split(str, sep) for a one-character sep: the pieces between the
\* separators, in order; a string without sep is its only piece.
RECURSIVE Split(_, _)
Split(str, sep) ==
    LET at == {i \in 1..Len(str) : str[i] = sep}
    IN IF at = {} THEN <<str>>
       ELSE LET i == CHOOSE x \in at : \A y \in at : x <= y
            IN <<SubSeq(str, 1, i - 1)>> \o Split(SubSeq(str, i + 1, Len(str)), sep)

\* The loop over kvs: [fatal, map] after the terms kvs, starting from map m.
\* The first term with fewer than two pieces ends the process.
RECURSIVE SelectorLoop(_, _)
SelectorLoop(kvs, m) ==
    IF kvs = <<>> THEN [fatal |-> FALSE, map |-> m]
    ELSE LET kv == Split(Head(kvs), "=")
         IN IF Len(kv) < 2 THEN [fatal |-> TRUE, map |-> m]
            ELSE SelectorLoop(Tail(kvs), MapSet(m, kv[1], kv[2]))

\* a.PVCSelectorMap as NewApi builds it from a.PVCSelector.
ParseSelector(expr) ==
    IF expr # <<>> THEN SelectorLoop(Split(expr, ","), EmptyMap)
    ELSE [fatal |-> FALSE, map |-> EmptyMap]

StartupFrame == UNCHANGED <<kind, auth, rvNext, conn, drops, idx, pending, hpc, mu,
                            pvcMap, podMap, rd, qres, dl, ops>>

\* NewApi up to its return: Log.Fatal and os.Exit(1) on a malformed term,
\* otherwise the API with its selector map.
NewApi ==
    /\ cfg.pc = "new"
    /\ LET r == ParseSelector(cfg.PVCSelector)
       IN IF r.fatal
          THEN /\ cfg' = [cfg EXCEPT !.pc = "exit"]
               /\ crashed' = "exit"
               /\ UNCHANGED PVCSelectorMap
          ELSE /\ cfg' = [cfg EXCEPT !.pc = "built"]
               /\ PVCSelectorMap' = r.map
               /\ UNCHANGED crashed
    /\ StartupFrame

InitStartup ==
    /\ kind = "pvc"
    /\ auth = EmptyMap
    /\ rvNext = 1
    /\ conn = "connecting"
    /\ drops = 0
    /\ idx = EmptyMap
    /\ pending = <<>>
    /\ hpc = "idle"
    /\ mu = "free"
    /\ pvcMap = EmptyMap
    /\ podMap = EmptyMap
    /\ rd = RdIdle
    /\ crashed = "none"
    /\ PVCSelectorMap = EmptyMap
    /\ qres = QIdle
    /\ dl = DlIdle
    /\ ops = <<>>
    /\ cfg \in {[PVCSelector |-> e, pc |-> "new"] : e \in SeqUpTo(Chars, MaxExpr)}

\* After NewApi has returned, the API's operations and the claim store's
\* handler run.
NextStartup ==
    \/ NewApi
    \/ cfg.pc = "built" /\ Queries
    \/ cfg.pc = "built" /\ \E pvc \in FewClaims : StoreAddPVC(pvc)
    \/ cfg.pc = "built" /\ \E name \in ClaimNames : DelCall(name)
    \/ cfg.pc = "built" /\ \E getErr \in {StatusNotFound, UpstreamErr("get")},
                               korder \in Perms(DOMAIN PVCSelectorMap) :
                               DelGet(getErr, korder)

SpecStartup == InitStartup /\ [][NextStartup]_vars

\* The watch subscription alone, with the scheduling the runtime gives it:
\* the listener goroutine runs whenever it has a notification, the reflector
\* retries its listing until it succeeds, the resync timer keeps firing.
NextWatch ==
    \/ \E n \in NamesOf(kind) : AuthCreate(n) \/ AuthUpdate(n) \/ AuthDelete(n)
    \/ \E syncDue \in BOOLEAN : ListAndWatch(syncDue)
    \/ Disconnect
    \/ Resync
    \/ HPanic
    \/ HLock
    \/ HApply

FairWatch ==
    /\ Init
    /\ [][NextWatch]_vars
    /\ WF_vars(HPanic)
    /\ WF_vars(HLock)
    /\ WF_vars(HApply)
    /\ WF_vars(\E syncDue \in BOOLEAN : ListAndWatch(syncDue))
    /\ WF_vars(Resync)

\* The subscription during an outage of unknown length: the listener and the
\* resync timer keep running, while the reflector's listing succeeds only once
\* the transport is back, which nothing promises.
FairResync ==
    /\ Init
    /\ [][NextWatch]_vars
    /\ WF_vars(HPanic)
    /\ WF_vars(HLock)
    /\ WF_vars(HApply)
    /\ WF_vars(Resync)

----------------------------------------------------------------------------
(* Claims about the watch subscription and the store under concurrency.    *)

Records(m) == {m[n] : n \in DOMAIN m}

\* C1: when the handler applies an Add or Update notification for n, the
\* store's record for n becomes the object the notification carries (for an
\* Update the new object), and every record is stored under its own name.
C1_StoreHoldsNewest ==
    [][ /\ (hpc = "locked" /\ hpc' = "idle" /\ Head(pending).type \in {"add", "update"})
           => LET e == Head(pending)
              IN /\ e.obj.name \in DOMAIN Map(kind)'
                 /\ Map(kind)'[e.obj.name] = e.obj
        /\ \A n \in DOMAIN Map(kind)' : Map(kind)'[n].name = n ]_vars

\* C2: no task reads a store's map while another is inside the critical
\* section that writes it.
C2_OneTaskOnMap == ~(rd.pc \in {"iter", "get"} /\ hpc = "locked")

\* C3: the records a finished List returns are the complete contents the map
\* had at one instant between the List's start and its return.
C3_ListIsSnapshot == rd.pc = "listed" => Range(rd.out) \in {Records(m) : m \in rd.snaps}

\* C9: no notification the informer delivers makes a handler end the process.
C9_HandlerNeverFatal == crashed # "panic"

\* C10: after the one transport failure, once the authority has stopped
\* changing, the store comes to equal the authority's collection and stays so.
C10_NoPermanentDrift == <>[](Map(kind) = auth)

\* C12: a List that no write overlapped, made after the initial listing was
\* received and before anything else changed, returns either the complete
\* contents the store had before the listing (nothing) or the complete listing.
C12_ListingAtomic ==
    (rd.pc = "listed" /\ Cardinality(rd.snaps) = 1 /\ rvNext = 1 /\ drops = 0)
        => Range(rd.out) \in {{}, Records(auth)}

\* The handler applies a notification of a resync: an update whose old and new
\* object are the same.
ResyncApplied ==
    /\ HApply
    /\ Head(pending).type = "update"
    /\ Head(pending).old = Head(pending).obj

\* C11: if resync ticks keep being applied, then, once the authority has
\* stopped changing, the store comes to hold exactly the authority's records
\* (every name of the authority with its current record, no other name), and
\* stays so.
C11_ResyncHeals == ([]<><<ResyncApplied>>_vars) => <>[](Map(kind) = auth)

----------------------------------------------------------------------------
(* Claims about the API.                                                   *)

\* The selector as the specification states it: every requirement's key is
\* a label of the claim, with the required value.
Satisfies(labels, sel) == \A k \in DOMAIN sel : k \in DOMAIN labels /\ labels[k] = sel[k]

IsMismatch(e, labels, sel) ==
    /\ e.key \in DOMAIN sel
    /\ \/ e.key \notin DOMAIN labels /\ e = MissingKeyErr(e.key)
       \/ e.key \in DOMAIN labels /\ labels[e.key] # sel[e.key]
                                  /\ e = WrongValueErr(e.key, sel[e.key])

\* C4: GetVolume returns NotFound exactly when the claim store has no record
\* of the name, a selector mismatch naming a failing required key exactly
\* when the record exists and fails the selector, and a view exactly when the
\* record exists and satisfies it; the handler answers NotFound with 404 and
\* a mismatch with another status.
C4_GetVolumeOutcomes ==
    qres.op = "get" =>
        LET present == qres.name \in DOMAIN pvcMap
            ok == present /\ Satisfies(pvcMap[qres.name].labels, PVCSelectorMap)
            e == qres.err
        IN /\ e = NotFoundErr <=> ~present
           /\ e = NoErr <=> ok
           /\ (present /\ ~ok) => IsMismatch(e, pvcMap[qres.name].labels, PVCSelectorMap)
           /\ qres.views # <<>> <=> ok
           /\ ok => qres.views[1].name = qres.name
           /\ qres.code = 404 <=> ~present
           /\ qres.code = 200 <=> ok

C4_Witness ==
    /\ qres.op = "get"
    /\ qres.err.msg = "PVC label does not contain value"
    /\ Cardinality(DOMAIN PVCSelectorMap) = 2

ViewCount(views, n) == Cardinality({i \in 1..Len(views) : views[i].name = n})

\* C7: ListVolumes returns one view for every claim of the store whose
\* labels satisfy the selector and none for any other claim; with the empty
\* selector it returns every claim.
C7_ListVolumesFilter ==
    qres.op = "list" =>
        /\ \A n \in ClaimNames :
              ViewCount(qres.views, n) =
                 IF n \in DOMAIN pvcMap /\ Satisfies(pvcMap[n].labels, PVCSelectorMap)
                 THEN 1 ELSE 0
        /\ \A i \in 1..Len(qres.views) :
              /\ qres.views[i].name \in DOMAIN pvcMap
              /\ qres.views[i].labels = pvcMap[qres.views[i].name].labels
        /\ PVCSelectorMap = EmptyMap => Len(qres.views) = Cardinality(DOMAIN pvcMap)

C7_Witness ==
    /\ qres.op = "list"
    /\ Cardinality(DOMAIN pvcMap) = 2
    /\ Len(qres.views) = 1
    /\ Cardinality(DOMAIN PVCSelectorMap) = 2

References(pod, c) == \E j \in 1..Len(pod.volumes) : pod.volumes[j] = c

\* C8: in every view the using-workload list holds exactly one summary for
\* each pod of the store that references the claim and none for any other.
C8_JoinExactlyOnce ==
    qres.op \in {"get", "list"} =>
        \A i \in 1..Len(qres.views) : \A n \in PodNames :
            ViewCount(qres.views[i].usedBy, n) =
               IF n \in DOMAIN podMap /\ References(podMap[n], qres.views[i].name)
               THEN 1 ELSE 0

\* C13: whatever the state of the subscription's transport, and whatever the
\* authority holds, ListVolumes returns without an error, and GetVolume returns
\* a view, NotFound or a selector mismatch, decided by the store's record of
\* the name alone; no failure of the transport reaches the caller.
C13_QueriesServeFromStore ==
    /\ qres.op = "list" =>
          /\ qres.err = NoErr
          /\ qres.code = 200
          /\ \A i \in 1..Len(qres.views) : qres.views[i].name \in DOMAIN pvcMap
    /\ qres.op = "get" =>
          /\ qres.err.msg \in {"", "not found", "PVC labels does not contain key",
                                "PVC label does not contain value"}
          /\ qres.err = NotFoundErr <=> qres.name \notin DOMAIN pvcMap
          /\ qres.err = NoErr =>
                /\ Len(qres.views) = 1
                /\ qres.views[1].name = qres.name
                /\ qres.views[1].labels = pvcMap[qres.name].labels
          /\ qres.code \in {200, 404, 500}
          /\ qres.code = 500 => qres.err.key \in DOMAIN PVCSelectorMap

C13_Witness ==
    /\ qres.op = "get"
    /\ conn = "disconnected"
    /\ qres.err = NoErr
    /\ qres.name \notin DOMAIN auth

\* C15: in every view of ListVolumes and GetVolume the claim's terminating
\* flag is set exactly when the store's record of the claim carries a deletion
\* marker, and terminating-since is that marker (nil otherwise); the same
\* holds of every workload summary and the store's record of the workload.
C15_TerminatingFlags ==
    qres.op \in {"get", "list"} =>
        \A i \in 1..Len(qres.views) :
            LET v == qres.views[i]
            IN /\ v.name \in DOMAIN pvcMap
               /\ v.terminating <=> pvcMap[v.name].del # 0
               /\ v.terminatingSince = pvcMap[v.name].del
               /\ \A j \in 1..Len(v.usedBy) :
                     LET u == v.usedBy[j]
                     IN /\ u.name \in DOMAIN podMap
                        /\ u.terminating <=> podMap[u.name].del # 0
                        /\ u.terminatingSince = podMap[u.name].del

C15_Witness ==
    /\ qres.op = "list"
    /\ \E i \in 1..Len(qres.views) :
          /\ qres.views[i].terminating
          /\ \E j \in 1..Len(qres.views[i].usedBy) : qres.views[i].usedBy[j].terminating
    /\ \E i \in 1..Len(qres.views) : ~qres.views[i].terminating

\* C5: a Delete call is sent only after, in the same invocation, a Get that
\* succeeded and returned labels satisfying the selector; when the fetched
\* labels fail the selector the invocation returns a mismatch error and
\* sends no Delete.
C5_DeleteOnlyAfterMatch ==
    /\ \A i \in 1..Len(dl.calls) :
          dl.calls[i] = "delete" =>
             /\ i > 1 /\ dl.calls[i - 1] = "get"
             /\ dl.getErr = NoErr
             /\ dl.fetched # <<>>
             /\ Satisfies(dl.fetched[1].labels, PVCSelectorMap)
    /\ (dl.fetched # <<>> /\ ~Satisfies(dl.fetched[1].labels, PVCSelectorMap)) =>
          /\ dl.pc = "done"
          /\ dl.calls = <<"get">>
          /\ IsMismatch(dl.err, dl.fetched[1].labels, PVCSelectorMap)

C5_Witness ==
    /\ dl.pc = "done"
    /\ dl.fetched # <<>>
    /\ ~Satisfies(dl.fetched[1].labels, PVCSelectorMap)
    /\ dl.name \in DOMAIN auth

\* C14: a step of a DeleteVolume invocation leaves the claim store and the
\* workload store as they are, and when its Get succeeds the object it tests
\* is the authority's: the Delete call follows exactly when the authority's
\* labels satisfy the selector, whatever the claim store holds for the name.
C14_DeleteBypassesStores ==
    [][ /\ dl' # dl => (pvcMap' = pvcMap /\ podMap' = podMap)
        /\ (dl.pc = "get" /\ dl'.pc # "get" /\ dl'.getErr = NoErr) =>
              /\ dl'.fetched = <<auth[dl.name]>>
              /\ dl'.pc = "delete" <=> Satisfies(auth[dl.name].labels, PVCSelectorMap) ]_vars

C14_Witness ==
    /\ dl.pc = "done"
    /\ dl.err = NoErr
    /\ dl.calls = <<"get", "delete">>
    /\ dl.name \notin DOMAIN auth
    /\ dl.name \in DOMAIN pvcMap
    /\ ~Satisfies(pvcMap[dl.name].labels, PVCSelectorMap)
    /\ podMap # EmptyMap

\* C6: a Get answered NotFound or with any other error is returned as it is
\* with no Delete sent; a failed Delete's error is returned as it is; no call
\* is made twice; the result is success exactly when the Get succeeded, the
\* selector passed and the Delete succeeded.
C6_DeleteErrors ==
    /\ Len(dl.calls) <= 2
    /\ dl.pc = "done" =>
          /\ dl.getErr # NoErr => dl.err = dl.getErr /\ dl.calls = <<"get">>
          /\ IsNotFound(dl.getErr) => IsNotFound(dl.err) /\ dl.code = 404
          /\ dl.calls = <<"get", "delete">> => dl.err = dl.delErr
          /\ dl.err = NoErr <=>
                /\ dl.getErr = NoErr
                /\ dl.fetched # <<>>
                /\ Satisfies(dl.fetched[1].labels, PVCSelectorMap)
                /\ dl.calls = <<"get", "delete">>
                /\ dl.delErr = NoErr

C6_Witness ==
    /\ dl.pc = "done"
    /\ dl.delErr = UpstreamErr("delete")
    /\ dl.err = UpstreamErr("delete")

----------------------------------------------------------------------------
(* Claims about a store used on its own.                                   *)

NoOp == [op |-> "none", name |-> "", rec |-> <<>>]

\* The last of the first k writes that names n.
LastOp(k, n) ==
    LET S == {i \in 1..k : ops[i].name = n}
    IN IF S = {} THEN NoOp ELSE ops[CHOOSE i \in S : \A j \in S : j <= i]

\* C16: a Get of a name whose last write was Upsert(r) returns r; on every
\* store, Upsert(r) applied twice leaves what one Upsert(r) leaves, and
\* Upsert(r) leaves the Get of every other name as it was.
C16_UpsertGet ==
    /\ (rd.pc = "got" /\ LastOp(rd.i, rd.name).op = "add")
          => rd.out = LastOp(rd.i, rd.name).rec
    /\ \A r \in StoreRecords(kind) :
          LET m == Map(kind)
              m1 == StoreAdd(kind, m, r)
          IN /\ StoreGet(kind, m1, r.name) = <<r>>
             /\ StoreAdd(kind, m1, r) = m1
             /\ \A n \in NamesOf(kind) \ {r.name} :
                   StoreGet(kind, m1, n) = StoreGet(kind, m, n)

\* A Get right after an Upsert that replaced another record of the name.
C16_Witness ==
    /\ rd.pc = "got"
    /\ rd.i = Len(ops)
    /\ rd.out # <<>>
    /\ \E i, j \in 1..Len(ops) :
          /\ i < j
          /\ ops[i].op = "add" /\ ops[i].name = rd.name
          /\ ops[j] = LastOp(rd.i, rd.name)
          /\ ops[j].op = "add"
          /\ ops[i].rec # ops[j].rec
    /\ Cardinality(DOMAIN Map(kind)) = 2

\* C17: a Get of a name whose last write was Remove returns absence; on every
\* store, Remove(n) of an absent name changes nothing, a second Remove(n)
\* changes nothing, and Remove(n) leaves the Get of every other name as it
\* was.
C17_RemoveGet ==
    /\ (rd.pc = "got" /\ LastOp(rd.i, rd.name).op = "delete") => rd.out = <<>>
    /\ \A n \in NamesOf(kind) :
          LET m == Map(kind)
              m1 == StoreDelete(kind, m, n)
          IN /\ StoreGet(kind, m1, n) = <<>>
             /\ n \notin DOMAIN m => m1 = m
             /\ StoreDelete(kind, m1, n) = m1
             /\ \A o \in NamesOf(kind) \ {n} :
                   StoreGet(kind, m1, o) = StoreGet(kind, m, o)

\* A Get of a name that was upserted and then removed twice, another name
\* still being held.
C17_Witness ==
    /\ rd.pc = "got"
    /\ rd.i = Len(ops)
    /\ rd.out = <<>>
    /\ \E i, j, k \in 1..Len(ops) :
          /\ i < j /\ j < k
          /\ ops[i].op = "add" /\ ops[i].name = rd.name
          /\ ops[j].op = "delete" /\ ops[j].name = rd.name
          /\ ops[k].op = "delete" /\ ops[k].name = rd.name
    /\ Map(kind) # EmptyMap

\* C18: a List made after the first rd.i writes holds, once each, the records
\* of the names whose last write among them was an Upsert, each as that
\* Upsert gave it, and nothing else, whatever writes came after the List.
C18_ListAfterSequence ==
    rd.pc = "listed" =>
        LET live == {n \in NamesOf(kind) : LastOp(rd.i, n).op = "add"}
        IN /\ Range(rd.out) = {LastOp(rd.i, n).rec[1] : n \in live}
           /\ Len(rd.out) = Cardinality(live)
           /\ \A i, j \in 1..Len(rd.out) : rd.out[i].name = rd.out[j].name => i = j

\* A List taken after an Upsert and a Remove, and a write made after it that
\* changed the store.
C18_Witness ==
    /\ rd.pc = "listed"
    /\ Len(rd.out) = 1
    /\ rd.i < Len(ops)
    /\ \E i \in 1..rd.i : ops[i].op = "delete"
    /\ Records(Map(kind)) # Range(rd.out)

----------------------------------------------------------------------------
(* Claims about startup.                                                   *)

Terms(expr) == Split(expr, ",")

EqCount(term) == Cardinality({i \in 1..Len(term) : term[i] = "="})

EqAt(term) == CHOOSE i \in 1..Len(term) : term[i] = "="

\* The requirement a term with a single "=" states: the text before it and
\* the text after it.
Requirement(term) ==
    <<SubSeq(term, 1, EqAt(term) - 1), SubSeq(term, EqAt(term) + 1, Len(term))>>

\* C19: NewApi returns an API exactly for the empty expression and the
\* expressions whose every term contains an "="; the empty expression gives
\* the empty requirement set; an expression whose terms each hold one "="
\* gives exactly the requirements its terms state; an expression with a term
\* lacking "=" ends the process; and no operation run afterwards changes the
\* requirement set NewApi built.
C19_SelectorConstruction ==
    LET expr == cfg.PVCSelector
        terms == Terms(expr)
        wellFormed == expr = <<>> \/ \A i \in 1..Len(terms) : EqCount(terms[i]) >= 1
        reqs == {<<k, PVCSelectorMap[k]>> : k \in DOMAIN PVCSelectorMap}
    IN /\ cfg.pc = "exit" => ~wellFormed
       /\ cfg.pc = "built" =>
             /\ wellFormed
             /\ expr = <<>> => PVCSelectorMap = EmptyMap
             /\ PVCSelectorMap = ParseSelector(expr).map
             /\ (expr # <<>> /\ \A i \in 1..Len(terms) : EqCount(terms[i]) = 1)
                   => reqs = {Requirement(terms[i]) : i \in 1..Len(terms)}

----------------------------------------------------------------------------
(* Claims about the selector on the three paths.                           *)

\* Label sets and selectors that also hold the empty string as a value.
LabelSetsE == UNION {[D -> Vals \cup {""}] : D \in SUBSET Keys}

EmptyValueSelectors == {[team |-> ""]}

\* C20: for every label set and the selector in force, in every order of
\* visiting its requirements, GetPVCList's loop passes, GetPVC's loop returns
\* no error and DeletePVC's loop goes on to the Delete call under one
\* condition: every requirement's key is a label with the required value;
\* and on the stores as they are GetVolume(n) returns a view exactly when
\* ListVolumes holds a view named n.
C20_SamePredicate ==
    /\ \A S \in {PVCSelectorMap} \cup EmptyValueSelectors :
       \A L \in LabelSetsE : \A korder \in Perms(DOMAIN S) :
          /\ selectorPass(L, S) <=> Satisfies(L, S)
          /\ SelectorErr(L, S, korder) = NoErr <=> Satisfies(L, S)
          /\ DeleteAfterGet(NoErr, L, S, korder) = NoErr <=> Satisfies(L, S)
    /\ \A n \in ClaimNames : \A korder \in Perms(DOMAIN PVCSelectorMap) :
       \A pvcOrder \in Perms(DOMAIN pvcMap) : \A podOrder \in Perms(DOMAIN podMap) :
          LET got == APIGetPVC(n, PVCSelectorMap, korder, podOrder)
              list == GetPVCList(GetPVCs(pvcMap, pvcOrder), GetPods(podMap, podOrder),
                                 PVCSelectorMap)
          IN got.err = NoErr <=> \E i \in 1..Len(list) : list[i].name = n

C20_Witness ==
    /\ qres.op = "get"
    /\ qres.views # <<>>
    /\ Cardinality(DOMAIN PVCSelectorMap) = 2
    /\ \E n \in DOMAIN pvcMap :
          /\ n # qres.name
          /\ ~Satisfies(pvcMap[n].labels, PVCSelectorMap)
          /\ DOMAIN pvcMap[n].labels = DOMAIN PVCSelectorMap

----------------------------------------------------------------------------
(* Claims about DeletePVC among other clients, and about startup.          *)

\* C21: when DeletePVC's Delete call removes a claim from the authority, the
\* labels the claim has at the authority at that moment satisfy the selector.
C21_DeleteProtected ==
    [][ (dl.pc = "delete" /\ dl'.pc = "done" /\ dl'.delErr = NoErr)
            => Satisfies(auth[dl.name].labels, PVCSelectorMap) ]_vars

\* C22: while the authority still holds what it held before startup, a Get
\* answered by a store finds every name the authority holds, and a List
\* returns a record of every such name.
C22_SyncedBeforeServing ==
    /\ (rd.pc = "got" /\ rvNext = 1 /\ rd.name \in DOMAIN auth) => rd.out # <<>>
    /\ (rd.pc = "listed" /\ rvNext = 1) =>
          \A n \in DOMAIN auth : \E i \in 1..Len(rd.out) : rd.out[i].name = n

====
